---- MODULE Spec2Model ----
(***************************************************************************)
(* State-machine model of the collabnix news pipeline:                     *)
(*   scripts/fetch_news.py        (sources -> category snapshots, images)  *)
(*   scripts/generate_posts.py    (snapshots -> data/posts.json)           *)
(*   scripts/publish_to_wordpress.py (posts.json -> remote posts, ledger)  *)
(*                                                                         *)
(* Spec       the generate and publish stages, run any number of times,    *)
(*            with the publish run open to a kill between two posts and    *)
(*            during the final rewrite of data/published_posts.json.       *)
(* SpecAsset  download_image called with any (title, url), in any order,   *)
(*            over runs that may be killed during a download.              *)
(* SpecFetch  one run of fetch_news.main over SOURCES.                     *)
(***************************************************************************)
EXTENDS Naturals, Sequences, FiniteSets, Bags, TLC

VARIABLES
    news,               \* data/{category}_news.json, the category snapshots
    clock,              \* wall clock in seconds, as datetime.now() reads it
    posts,              \* data/posts.json, the list generate_posts.main wrote last
    ledgerFile,         \* data/published_posts.json
    pc,                 \* "idle" | "publishing": where publish_to_wordpress.main is
    i,                  \* position of main's loop `for post in all_posts`
    published_post_ids, \* main's in-memory set of published ids
    newly_published,    \* main's list of the posts published by this run
    remote,             \* the posts the remote system has created, a bag
    runs,               \* runs started so far, of each script
    faults,             \* remote failures, failed saves, raises and kills so far
    outcomes,           \* history: this run's publish calls, post index -> outcome
    prevFailed,         \* history: ids whose publish call failed in the run before
    last,               \* history: the latest call of publish_post_to_wordpress
    raised,             \* history: the items whose post the latest generate run failed to make
    files,              \* data/images: path -> "partial" | "complete"
    imageRun,           \* history: the run download_image is called in
    fetches,            \* history: asset -> network fetches made for it
    firstOk,            \* history: asset -> run and path of its first call that returned a path
    fetchesSince,       \* history: asset -> fetches made by that call and the calls after it
    lastCall,           \* history: the latest call of download_image
    fpc,                \* fetch_news.main: "idle" | "sources" | "done"
    fcat,               \* main's position in SOURCES: the category,
    fsrc,               \* and the source in its list
    articles,           \* main's list for the category at hand
    all_articles,       \* main's dict of the categories done
    snapshots,          \* data/{category}_news.json as main wrote them
    allNews,            \* data/all_news.json
    returned,           \* history: what each source read so far returned
    lastSource          \* history: the latest source read

pipeVars == <<news, clock, posts, ledgerFile, pc, i, published_post_ids, newly_published,
              remote, runs, faults, outcomes, prevFailed, last, raised>>

imageVars == <<imageRun, fetches, firstOk, fetchesSince, lastCall>>

fetchVars == <<fpc, fcat, fsrc, articles, all_articles, snapshots, allNews,
               returned, lastSource>>

vars == <<pipeVars, files, imageVars, fetchVars>>

-----------------------------------------------------------------------------
(* Bounds of the model. *)

\* articles in the category snapshots read by one generate run, all categories
MaxArticles == 2
\* runs of each script
MaxRuns == 2
\* failed remote calls, failed saves, items that raise and kills over all runs
MaxFaults == 1

\* network fetches made for one image
MaxFetches == 2
\* entries of one feed or page, and items read by one fetch run
MaxItems == 2

-----------------------------------------------------------------------------
(* Values. *)

\* Python's None, where an id is expected
None == <<>>

\* generate_posts.main: categories = ['docker', 'kubernetes', 'container']
Categories == <<"docker", "kubernetes", "container">>

\* generate_posts.main: articles[:3]
TopN == 3

\* A link is a page with an optional tracking parameter and trailing slash:
\* the links the snapshots hold are two spellings of one page.
Links ==
    { [page |-> "a", query |-> "", slash |-> FALSE],
      [page |-> "a", query |-> "utm_source", slash |-> FALSE] }

\* The canonical form of a link the specification describes: tracking query
\* parameters removed, trailing slash stripped.  No script computes it.
Canonicalize(link) == [link EXCEPT !.query = "", !.slash = FALSE]

Min(a, b) == IF a < b THEN a ELSE b

RECURSIVE Flatten(_)
Flatten(ss) == IF ss = <<>> THEN <<>> ELSE Head(ss) \o Flatten(Tail(ss))

-----------------------------------------------------------------------------
(* generate_posts.py *)

\* post_id = f"{category}_{index}_{datetime.now().strftime('%Y%m%d_%H%M%S')}"
PostId(category, index, now) == <<category, index, now>>

\* tags of the post object
PostTags(category) == <<category, "container", "cloud-native">>

\* generate_post_content, lines 78-87: the tags the "Tags:" line at the end
\* of the content names
generate_post_content(article, category) ==
    <<category, "container", "cloud-native">>
        \o (IF category = "docker" THEN <<"containers", "dockerhub", "docker-compose">>
            ELSE IF category = "kubernetes" THEN <<"k8s", "cncf", "cloud-native">>
            ELSE <<>>)

create_post_from_article(article, category, index, now) ==
    [ id           |-> PostId(category, index, now),
      content      |-> generate_post_content(article, category),
      category     |-> category,
      tags         |-> PostTags(category),
      original_url |-> article.link ]

\* The (category, index, article) triples main's two loops visit, in order.
GenerateWork(snap) ==
    Flatten([c \in 1..Len(Categories) |->
        [k \in 1..Min(Len(snap[Categories[c]]), TopN) |->
            [category |-> Categories[c], index |-> k - 1,
             article |-> snap[Categories[c]][k]]]])

\* all_posts as main builds it.  Before each post main sleeps half a second or
\* more and fetches the article, and the publish run sleeps two seconds or more
\* before each call: the k-th post of a run is stamped a second after the one
\* before it, and later than every post of the runs before.
GeneratePosts(snap, now, raises) ==
    LET work == GenerateWork(snap)
        \* an exception in create_post_from_article leaves the category's loop
        \* for the except clause of line 158
        Made(k) == \A j \in raises : ~(j <= k /\ work[j].category = work[k].category)
    IN  Flatten([k \in 1..Len(work) |->
            IF Made(k)
            THEN <<create_post_from_article(work[k].article, work[k].category,
                                            work[k].index, now + k)>>
            ELSE <<>>])

\* The items of a run whose create_post_from_article raises (building the post,
\* or writing data/posts/{id}.json): items the loop comes to, at most `budget`.
RaiseChoices(work, budget) ==
    {R \in SUBSET (1..Len(work)) :
        /\ Cardinality(R) <= budget
        /\ \A j, k \in R : j < k => work[j].category # work[k].category}

\* The category snapshots a generate run can find: data/{category}_news.json.
SeqsUpTo(S, n) == UNION {[1..m -> S] : m \in 0..n}

Articles == [link : Links]

NewsChoices ==
    { n \in [{Categories[c] : c \in 1..Len(Categories)} -> SeqsUpTo(Articles, MaxArticles)] :
        Len(n["docker"]) + Len(n["kubernetes"]) + Len(n["container"]) <= MaxArticles }

-----------------------------------------------------------------------------
(* publish_to_wordpress.py *)

\* How one get-or-create exchange with the remote system can go: the search
\* answers 200 with a match, 200 without one, or an error status; the create
\* that follows answers 201 or an error status.
CallBehaviours == [search : {"match", "nomatch", "error"}, create : {"created", "error"}]

\* get_or_create_category / get_or_create_tag: the remote id or None
get_or_create(kind, name, b) ==
    IF b.search = "match" THEN <<kind, name>>
    ELSE IF b.create = "created" THEN <<kind, name>>
    ELSE None

get_or_create_category(name, b) == get_or_create("category", name, b)

get_or_create_tag(name, b) == get_or_create("tag", name, b)

\* tag_ids: the ids of the tags that resolved, in order
RECURSIVE ResolveTags(_, _)
ResolveTags(tags, bs) ==
    IF tags = <<>> THEN <<>>
    ELSE LET id == get_or_create_tag(Head(tags), Head(bs))
         IN  (IF id # None THEN <<id>> ELSE <<>>) \o ResolveTags(Tail(tags), Tail(bs))

\* The tag_ids a publish call can come to, by the post's category.
TagIdChoices ==
    [c \in {Categories[k] : k \in 1..Len(Categories)} |->
        {ResolveTags(PostTags(c), bs) : bs \in [1..Len(PostTags(c)) -> CallBehaviours]}]

\* post_data['categories'] without its guard: [category_id], whatever it is
RequestCategories_Unguarded(category_id) == <<category_id>>

\* post_data['categories']
RequestCategories(category_id) == IF category_id # None THEN <<category_id>> ELSE <<>>

\* What the create-post request can come to.
PostOutcomes == {"created", "http_error", "network_fault"}

\* publish_post_to_wordpress returns True: a 2xx answer, and the post's record
\* saved to data/posts/{id}.json.
PublishSucceeded(outcome, saved) == outcome = "created" /\ saved

\* main, lines 247-249 without `if success:`: every call is recorded
RecordSuccess_Always(success, post, newly, ids) ==
    [newly |-> Append(newly, post), ids |-> ids \cup {post.id}]

\* main, lines 247-249: newly_published.append(post); published_post_ids.add(id)
RecordSuccess(success, post, newly, ids) ==
    IF success THEN [newly |-> Append(newly, post), ids |-> ids \cup {post.id}]
    ELSE [newly |-> newly, ids |-> ids]

\* The ledger file as a run reads it.
LedgerEntries(file) == IF file.state = "ok" THEN file.entries ELSE <<>>

LedgerIds(file) == {LedgerEntries(file)[k].id : k \in 1..Len(LedgerEntries(file))}

\* main, lines 224-233: the ids of the file's entries; the empty set when the
\* file is absent, and when reading it raises.
LoadPublishedIds(file) == LedgerIds(file)

\* main, lines 252-264: newly_published, extended by the file's entries when the
\* file exists and reading it does not raise.
MergedLedger(newly, file) == newly \o LedgerEntries(file)

NoCall == [idx |-> 0, attempted |-> FALSE, category_id |-> None, tag_ids |-> <<>>,
           categories |-> <<>>, outcome |-> "none", success |-> FALSE]

-----------------------------------------------------------------------------
(* fetch_news.py *)

\* SOURCES
SOURCES ==
    [ docker |->
        << [type |-> "rss", url |-> "https://www.docker.com/blog/feed/"],
           [type |-> "rss", url |-> "https://docs.docker.com/release-notes/feed/"],
           [type |-> "url", url |-> "https://www.docker.com/blog/"] >>,
      kubernetes |->
        << [type |-> "rss", url |-> "https://kubernetes.io/feed.xml"],
           [type |-> "rss", url |-> "https://www.cncf.io/feed/"],
           [type |-> "url", url |-> "https://kubernetes.io/blog/"] >>,
      container |->
        << [type |-> "rss", url |-> "https://www.linkedin.com/company/docker/rss"],
           [type |-> "rss", url |-> "https://www.redhat.com/en/rss/blog/channel/kubernetes"] >> ]

\* SOURCES.items(), in the order of the dict
SourceCategories == <<"docker", "kubernetes", "container">>

\* feed.entries[:10], soup.select(...)[:10]
FeedLimit == 10

\* len(file_ext) > 5
MaxExtLen == 5

\* Titles and urls are strings: sequences of characters.  A url is held in
\* three parts, url = base + ext + query, ext being the extension of its path.
NoUrl == [base |-> <<>>, ext |-> <<>>, query |-> <<>>]

NoTitle == <<>>

UrlString(url) == url.base \o url.ext \o url.query

\* os.path.splitext(unquote(url.split('?')[0]))[-1], '.jpg' when it is empty
\* or longer than 5
FileExt(url) ==
    IF url.ext = <<>> \/ Len(url.ext) > MaxExtLen THEN <<".", "j", "p", "g">> ELSE url.ext

\* hashlib.md5(...).hexdigest(): MD5 is taken to be free of collisions, and a
\* digest stands as the string it digests.
Md5(str) == str

\* local_path = os.path.join('data', 'images', md5(f"{title}_{url}") + file_ext)
LocalPath(title, url) == <<Md5(title \o <<"_">> \o UrlString(url)), FileExt(url)>>

\* The images the model asks for.  The first two are different (title, url)
\* pairs with one f"{title}_{url}"; the third has an extension of six characters.
Assets ==
    { [title |-> <<"t">>,
       url |-> [base |-> <<"u", "_", "v">>, ext |-> <<".", "p", "n", "g">>, query |-> <<"?", "w">>]],
      [title |-> <<"t", "_", "u">>,
       url |-> [base |-> <<"v">>, ext |-> <<".", "p", "n", "g">>, query |-> <<"?", "w">>]],
      [title |-> <<"t">>,
       url |-> [base |-> <<"v">>, ext |-> <<".", "i", "m", "a", "g", "e">>, query |-> <<>>]] }

\* How the download of an image that is not on disk can go: requests.get or
\* raise_for_status raises; the stream breaks after the file was opened; all
\* of it is written.
NetOutcomes == {"http_error", "stream_error", "ok"}

\* download_image without `if not os.path.exists(local_path)`: always fetches
download_image_refetch(fs, url, title, net) ==
    IF url = NoUrl THEN [files |-> fs, path |-> None, fetched |-> FALSE]
    ELSE LET local_path == LocalPath(title, url)
         IN  IF net = "http_error" THEN [files |-> fs, path |-> None, fetched |-> TRUE]
             ELSE IF net = "stream_error"
                  THEN [files |-> (local_path :> "partial") @@ fs, path |-> None, fetched |-> TRUE]
             ELSE [files |-> (local_path :> "complete") @@ fs, path |-> local_path, fetched |-> TRUE]

\* download_image(url, category, title) over the directory fs: the directory
\* after the call, the path returned (or None), and whether requests.get ran
download_image(fs, url, title, net) ==
    IF url = NoUrl THEN [files |-> fs, path |-> None, fetched |-> FALSE]
    ELSE LET local_path == LocalPath(title, url)
         IN  IF local_path \in DOMAIN fs
             THEN [files |-> fs, path |-> local_path, fetched |-> FALSE]
             ELSE IF net = "http_error" THEN [files |-> fs, path |-> None, fetched |-> TRUE]
             ELSE IF net = "stream_error"
                  THEN [files |-> (local_path :> "partial") @@ fs, path |-> None, fetched |-> TRUE]
             ELSE [files |-> (local_path :> "complete") @@ fs, path |-> local_path, fetched |-> TRUE]

NoImageCall == [asset |-> [title |-> NoTitle, url |-> NoUrl], path |-> None,
                fetched |-> FALSE, run |-> 0, again |-> FALSE]

\* What a source serves: the fetch or the parse of the whole document fails,
\* or it holds entries, with or without a title and an image.
Entries == [title : {NoTitle, <<"t">>},
            image_url : {NoUrl, [base |-> <<"v">>, ext |-> <<".", "i", "m", "a", "g", "e">>, query |-> <<>>]}]

FeedInputs == [fails : BOOLEAN, entries : SeqsUpTo(Entries, MaxItems)]

Take(seq, n) == SubSeq(seq, 1, Min(Len(seq), n))

\* The article dict both readers build.
Article(entry, url) ==
    [ title |-> entry.title, link |-> <<"l">>, image_url |-> entry.image_url,
      source |-> url, local_image |-> None ]

\* fetch_rss_feed returning what it has when an entry raises
fetch_rss_feed_partial(url, feed) ==
    IF feed.fails THEN <<>>
    ELSE LET entries == Take(feed.entries, FeedLimit)
             bad == {k \in 1..Len(entries) : entries[k].title = NoTitle}
             n == IF bad = {} THEN Len(entries)
                  ELSE (CHOOSE k \in bad : \A j \in bad : k <= j) - 1
         IN  [k \in 1..n |-> Article(entries[k], url)]

\* fetch_rss_feed: entry.title raises on an entry without a title, and the
\* except clause returns []
fetch_rss_feed(url, feed) ==
    LET entries == Take(feed.entries, FeedLimit)
    IN  IF feed.fails \/ \E k \in 1..Len(entries) : entries[k].title = NoTitle
        THEN <<>>
        ELSE [k \in 1..Len(entries) |-> Article(entries[k], url)]

HasTitle(entry) == entry.title # NoTitle

\* fetch_website: a block without a title element is passed over
fetch_website(url, page) ==
    IF page.fails THEN <<>>
    ELSE LET blocks == SelectSeq(Take(page.entries, FeedLimit), HasTitle)
         IN  [k \in 1..Len(blocks) |-> Article(blocks[k], url)]

\* The fetch or the parse of the source failed: its reader's except clause ran.
SourceFailed(source, feed) ==
    \/ feed.fails
    \/ /\ source.type = "rss"
       /\ \E k \in 1..Len(Take(feed.entries, FeedLimit)) : feed.entries[k].title = NoTitle

\* main, lines 188-191
ReadSource(source, feed) ==
    [ failed |-> SourceFailed(source, feed),
      items  |-> IF source.type = "rss" THEN fetch_rss_feed(source.url, feed)
                 ELSE fetch_website(source.url, feed) ]

AllSources == UNION {{SOURCES[c][k] : k \in 1..Len(SOURCES[c])} : c \in DOMAIN SOURCES}

\* What reading a source can come to.
ReadResults == [source \in AllSources |-> {ReadSource(source, feed) : feed \in FeedInputs}]

\* main, lines 194-198: the images of the source's articles downloaded in turn
RECURSIVE DownloadImages(_, _, _)
DownloadImages(fs, arts, nets) ==
    IF arts = <<>> THEN [files |-> fs, articles |-> <<>>]
    ELSE LET article == Head(arts)
             got == IF article.image_url # NoUrl
                    THEN download_image(fs, article.image_url, article.title, Head(nets))
                    ELSE [files |-> fs, path |-> None, fetched |-> FALSE]
             kept == IF got.path # None THEN [article EXCEPT !.local_image = got.path]
                     ELSE article
             rest == DownloadImages(got.files, Tail(arts), Tail(nets))
         IN  [files |-> rest.files, articles |-> <<kept>> \o rest.articles]

NoSource == [category |-> "", url |-> "", failed |-> FALSE, items |-> <<>>]

-----------------------------------------------------------------------------
PipelineInit ==
    /\ news \in NewsChoices
    /\ clock = 0
    /\ posts = <<>>
    /\ ledgerFile = [state |-> "absent", entries |-> <<>>]
    /\ pc = "idle"
    /\ i = 0
    /\ published_post_ids = {}
    /\ newly_published = <<>>
    /\ remote = EmptyBag
    /\ runs = [generate |-> 0, publish |-> 0]
    /\ faults = 0
    /\ outcomes = <<>>
    /\ prevFailed = {}
    /\ last = NoCall
    /\ raised = {}

\* An empty data/images, and no call of download_image yet.
ImagesInit ==
    /\ files = <<>>
    /\ imageRun = 1
    /\ fetches = [a \in Assets |-> 0]
    /\ firstOk = <<>>
    /\ fetchesSince = [a \in Assets |-> 0]
    /\ lastCall = NoImageCall

\* fetch_news.main not started.
FetchInit ==
    /\ fpc = "idle"
    /\ fcat = 0
    /\ fsrc = 0
    /\ articles = <<>>
    /\ all_articles = <<>>
    /\ snapshots = <<>>
    /\ allNews = <<>>
    /\ returned = <<>>
    /\ lastSource = NoSource

Init == PipelineInit /\ ImagesInit /\ FetchInit

\* generate_posts.main: one run, which rewrites data/posts.json
GenerateMain ==
    /\ pc = "idle"
    /\ runs.generate < MaxRuns
    /\ runs' = [runs EXCEPT !.generate = @ + 1]
    /\ \E raises \in RaiseChoices(GenerateWork(news), MaxFaults - faults) :
        /\ posts' = GeneratePosts(news, clock, raises)
        /\ raised' = raises
        /\ faults' = faults + Cardinality(raises)
    /\ clock' = clock + Len(GenerateWork(news))
    /\ prevFailed' = {}
    /\ UNCHANGED <<files, imageVars, fetchVars>>
    /\ UNCHANGED <<news, ledgerFile, pc, i, published_post_ids, newly_published,
                   remote, outcomes, last>>

\* publish_to_wordpress.main, lines 212-236: load the posts and the ledger
StartPublish ==
    /\ pc = "idle"
    /\ runs.publish < MaxRuns
    /\ runs' = [runs EXCEPT !.publish = @ + 1]
    /\ pc' = "publishing"
    /\ i' = 1
    /\ published_post_ids' = LoadPublishedIds(ledgerFile)
    /\ newly_published' = <<>>
    /\ UNCHANGED <<files, imageVars, fetchVars>>
    /\ UNCHANGED <<news, clock, posts, ledgerFile, remote, faults, outcomes,
                   prevFailed, last, raised>>

\* main, lines 238-239: a post whose id is in the set is passed over
SkipPost ==
    /\ pc = "publishing"
    /\ i <= Len(posts)
    /\ posts[i].id \in published_post_ids
    /\ i' = i + 1
    /\ last' = [NoCall EXCEPT !.idx = i]
    /\ UNCHANGED <<files, imageVars, fetchVars>>
    /\ UNCHANGED <<news, clock, posts, ledgerFile, pc, published_post_ids,
                   newly_published, remote, runs, faults, outcomes, prevFailed, raised>>

\* main, lines 238-249, with publish_post_to_wordpress: one post published
PublishPost ==
    /\ pc = "publishing"
    /\ i <= Len(posts)
    /\ posts[i].id \notin published_post_ids
    /\ LET post == posts[i]
       IN \E category_id \in {get_or_create_category(post.category, b) : b \in CallBehaviours},
             tag_ids \in TagIdChoices[post.category],
             outcome \in PostOutcomes, saved \in BOOLEAN :
            LET success == PublishSucceeded(outcome, saved)
                rec == RecordSuccess(success, post, newly_published, published_post_ids)
                failed == (IF category_id = None THEN 1 ELSE 0)
                          + (Len(post.tags) - Len(tag_ids))
                          + (IF success THEN 0 ELSE 1)
            IN  /\ outcome # "created" => saved
                /\ faults + failed <= MaxFaults
                /\ faults' = faults + failed
                /\ remote' = IF outcome = "created"
                             THEN remote (+) SetToBag({[id |-> post.id, link |-> post.original_url]})
                             ELSE remote
                /\ newly_published' = rec.newly
                /\ published_post_ids' = rec.ids
                /\ outcomes' = outcomes @@ (i :> (IF success THEN "published"
                                                  ELSE IF outcome = "created" THEN "unsaved"
                                                  ELSE "failed"))
                /\ last' = [idx |-> i, attempted |-> TRUE, category_id |-> category_id,
                            tag_ids |-> tag_ids,
                            categories |-> RequestCategories(category_id),
                            outcome |-> outcome, success |-> success]
    /\ i' = i + 1
    /\ UNCHANGED <<files, imageVars, fetchVars>>
    /\ UNCHANGED <<news, clock, posts, ledgerFile, pc, runs, prevFailed, raised>>

\* The ids of the posts whose publish call this run made and saw fail.
FailedIds == {posts[k].id : k \in {j \in DOMAIN outcomes : outcomes[j] = "failed"}}

\* What a finished or killed run leaves in memory: nothing.
RunOver ==
    /\ prevFailed' = FailedIds
    /\ pc' = "idle"
    /\ i' = 0
    /\ published_post_ids' = {}
    /\ newly_published' = <<>>
    /\ outcomes' = <<>>
    /\ last' = NoCall

\* main, lines 251-266: the ledger file rewritten when the run published
\* something.  torn: the process is killed while json.dump writes the file
\* that open(..., 'w') has just truncated.
FinishPublish ==
    /\ pc = "publishing"
    /\ i > Len(posts)
    /\ \E torn \in BOOLEAN :
        /\ torn => newly_published # <<>> /\ faults < MaxFaults
        /\ faults' = IF torn THEN faults + 1 ELSE faults
        /\ ledgerFile' =
              IF newly_published = <<>> THEN ledgerFile
              ELSE IF torn THEN [state |-> "corrupt", entries |-> <<>>]
              ELSE [state |-> "ok", entries |-> MergedLedger(newly_published, ledgerFile)]
    /\ RunOver
    /\ UNCHANGED <<files, imageVars, fetchVars>>
    /\ UNCHANGED <<news, clock, posts, remote, runs, raised>>

\* The publish run is killed before it rewrites the ledger file.
Crash ==
    /\ pc = "publishing"
    /\ faults < MaxFaults
    /\ faults' = faults + 1
    /\ RunOver
    /\ UNCHANGED <<files, imageVars, fetchVars>>
    /\ UNCHANGED <<news, clock, posts, ledgerFile, remote, runs, raised>>

Next ==
    \/ GenerateMain
    \/ StartPublish
    \/ SkipPost
    \/ PublishPost
    \/ FinishPublish
    \/ Crash

Spec == Init /\ [][Next]_vars

-----------------------------------------------------------------------------
(* download_image, called by any run for any image *)

\* One call of download_image(url, category, title) that returns.
ResolveImage ==
    \E asset \in Assets, net \in NetOutcomes :
        LET got == download_image(files, asset.url, asset.title, net)
            ok == got.path # None
            since == asset \in DOMAIN firstOk \/ ok
        IN  /\ got.fetched => fetches[asset] < MaxFetches
            /\ ~got.fetched => net = "ok"
            /\ files' = got.files
            /\ fetches' = [fetches EXCEPT ![asset] = IF got.fetched THEN @ + 1 ELSE @]
            /\ firstOk' = IF ok /\ asset \notin DOMAIN firstOk
                          THEN firstOk @@ (asset :> [run |-> imageRun, path |-> got.path])
                          ELSE firstOk
            /\ fetchesSince' = [fetchesSince EXCEPT
                                  ![asset] = IF since /\ got.fetched THEN @ + 1 ELSE @]
            /\ lastCall' = [asset |-> asset, path |-> got.path, fetched |-> got.fetched,
                            run |-> imageRun, again |-> asset \in DOMAIN firstOk]
            /\ UNCHANGED <<imageRun, pipeVars, fetchVars>>

\* download_image(None, ...): `if not url: return None`
ResolveNoImage ==
    LET got == download_image(files, NoUrl, <<"t">>, "ok")
    IN  /\ files' = got.files
        /\ lastCall' = [NoImageCall EXCEPT !.asset.title = <<"t">>, !.run = imageRun]
        /\ UNCHANGED <<imageRun, fetches, firstOk, fetchesSince, pipeVars, fetchVars>>

\* The run is killed during a download: after requests.get, before the file is
\* opened or while it is being written.
KillDuringDownload ==
    \E asset \in Assets, opened \in BOOLEAN :
        LET local_path == LocalPath(asset.title, asset.url)
        IN  /\ imageRun < MaxRuns
            /\ local_path \notin DOMAIN files
            /\ fetches[asset] < MaxFetches
            /\ files' = IF opened THEN (local_path :> "partial") @@ files ELSE files
            /\ fetches' = [fetches EXCEPT ![asset] = @ + 1]
            /\ imageRun' = imageRun + 1
            /\ lastCall' = NoImageCall
            /\ UNCHANGED <<firstOk, fetchesSince, pipeVars, fetchVars>>

\* The run ends and another starts.
NextImageRun ==
    /\ imageRun < MaxRuns
    /\ imageRun' = imageRun + 1
    /\ lastCall' = NoImageCall
    /\ UNCHANGED <<files, fetches, firstOk, fetchesSince, pipeVars, fetchVars>>

AssetNext ==
    \/ ResolveImage
    \/ ResolveNoImage
    \/ KillDuringDownload
    \/ NextImageRun

AssetInit == ImagesInit /\ FetchInit /\ PipelineInit /\ news = [c \in DOMAIN SOURCES |-> <<>>]

SpecAsset == AssetInit /\ [][AssetNext]_vars

-----------------------------------------------------------------------------
(* fetch_news.main *)

RECURSIVE SumLen(_, _)
SumLen(f, S) ==
    IF S = {} THEN 0
    ELSE LET x == CHOOSE y \in S : TRUE IN Len(f[x]) + SumLen(f, S \ {x})

\* The items main holds so far.
ItemsRead == Len(articles) + SumLen(all_articles, DOMAIN all_articles)

StartFetch ==
    /\ fpc = "idle"
    /\ fpc' = "sources"
    /\ fcat' = 1
    /\ fsrc' = 1
    /\ articles' = <<>>
    /\ all_articles' = <<>>
    /\ UNCHANGED <<snapshots, allNews, returned, lastSource, files, imageVars, pipeVars>>

\* main, lines 184-200: one source read, its images downloaded, its articles
\* added to the category's
FetchSource ==
    /\ fpc = "sources"
    /\ fcat <= Len(SourceCategories)
    /\ fsrc <= Len(SOURCES[SourceCategories[fcat]])
    /\ LET category == SourceCategories[fcat]
           source == SOURCES[category][fsrc]
       IN \E read \in ReadResults[source] :
            \E nets \in [1..Len(read.items) -> NetOutcomes] :
              LET done == DownloadImages(files, read.items, nets)
              IN  /\ ItemsRead + Len(read.items) <= MaxItems
                  /\ files' = done.files
                  /\ articles' = articles \o done.articles
                  /\ returned' = Append(returned,
                        [category |-> category, url |-> source.url,
                         items |-> IF read.failed THEN <<>> ELSE done.articles])
                  /\ lastSource' = [category |-> category, url |-> source.url,
                                    failed |-> read.failed, items |-> done.articles]
    /\ fsrc' = fsrc + 1
    /\ UNCHANGED <<fpc, fcat, all_articles, snapshots, allNews, imageVars, pipeVars>>

\* main, lines 202-207: the category's articles kept and written to its file
SaveCategory ==
    /\ fpc = "sources"
    /\ fcat <= Len(SourceCategories)
    /\ fsrc > Len(SOURCES[SourceCategories[fcat]])
    /\ all_articles' = (SourceCategories[fcat] :> articles) @@ all_articles
    /\ snapshots' = (SourceCategories[fcat] :> articles) @@ snapshots
    /\ articles' = <<>>
    /\ fcat' = fcat + 1
    /\ fsrc' = 1
    /\ UNCHANGED <<fpc, allNews, returned, lastSource, files, imageVars, pipeVars>>

\* main, lines 209-213: data/all_news.json written
SaveAll ==
    /\ fpc = "sources"
    /\ fcat > Len(SourceCategories)
    /\ allNews' = all_articles
    /\ fpc' = "done"
    /\ UNCHANGED <<fcat, fsrc, articles, all_articles, snapshots, returned, lastSource,
                   files, imageVars, pipeVars>>

FetchNext ==
    \/ StartFetch
    \/ FetchSource
    \/ SaveCategory
    \/ SaveAll

\* data/images as earlier runs may have left it.
FetchFiles ==
    LET path == LocalPath(<<"t">>, [base |-> <<"v">>, ext |-> <<".", "i", "m", "a", "g", "e">>, query |-> <<>>])
    IN  {<<>>, path :> "partial", path :> "complete"}

FetchRunInit ==
    /\ FetchInit /\ PipelineInit /\ news = [c \in DOMAIN SOURCES |-> <<>>]
    /\ files \in FetchFiles
    /\ imageRun = 1 /\ fetches = [a \in Assets |-> 0] /\ firstOk = <<>>
    /\ fetchesSince = [a \in Assets |-> 0] /\ lastCall = NoImageCall

SpecFetch == FetchRunInit /\ [][FetchNext]_vars

-----------------------------------------------------------------------------
(* Properties of the generate and publish stages, checked under Spec. *)

\* The identity key of a post: the canonical form of the link it came from.
IdentityKey(post) == Canonicalize(post.original_url)

EntriesWithKey(file, K) ==
    {k \in 1..Len(LedgerEntries(file)) : IdentityKey(LedgerEntries(file)[k]) = K}

\* The publish calls this run has made for key K, as post indices.
CallsForKey(K) == {k \in DOMAIN outcomes : IdentityKey(posts[k]) = K}

Keys == {Canonicalize(l) : l \in Links}

\* This step is a call of publish_post_to_wordpress for posts[i].
IsPublishCall == pc = "publishing" /\ i <= Len(posts) /\ i' = i + 1 /\ last'.attempted

\* This step passes posts[i] over.
IsSkip == pc = "publishing" /\ i <= Len(posts) /\ i' = i + 1 /\ ~last'.attempted

\* This step ends a publish run.
IsRunEnd == pc = "publishing" /\ pc' = "idle"

\* The create-post call answered a non-success status or raised a network fault.
CreateFailed(call) == call.attempted /\ call.outcome \in {"http_error", "network_fault"}

\* C1: at-most-once publish.  For every identity key K the ledger holds at most
\* one entry, a run calls publish for K at most once, and a run that starts
\* with K in the ledger never calls publish for K.
C1_AtMostOncePublish ==
    \A K \in Keys :
        /\ Cardinality(EntriesWithKey(ledgerFile, K)) <= 1
        /\ Cardinality(CallsForKey(K)) <= 1
        /\ (pc = "publishing" /\ EntriesWithKey(ledgerFile, K) # {}) => CallsForKey(K) = {}

\* C2: two items of one run whose links are the same after canonicalization
\* become posts with one identity key in the ledger's eyes (the id the ledger
\* compares), and the run calls publish for at most one of them.
C2_SameCanonicalLinkOnePost ==
    \A a, b \in DOMAIN posts :
        (a < b /\ IdentityKey(posts[a]) = IdentityKey(posts[b])) =>
            /\ posts[a].id = posts[b].id
            /\ ~(a \in DOMAIN outcomes /\ b \in DOMAIN outcomes)

\* The posts on disk: data/posts.json and the ledger's entries.
KnownPosts ==
    {posts[k] : k \in DOMAIN posts}
        \cup {LedgerEntries(ledgerFile)[k] : k \in 1..Len(LedgerEntries(ledgerFile))}

\* C3: the key the ledger compares is a function of the item's link alone: two
\* posts made from the same link have the same id, whatever the time, the
\* category and the index they were made with.
C3_KeyIsFunctionOfLink ==
    \A p, q \in KnownPosts : p.original_url = q.original_url => p.id = q.id

\* C4: a post whose create-post call failed is not in the published set nor in
\* the run's list of published posts, the ledger file is untouched by the call,
\* the post is not called again in the run, the file the run leaves names no
\* failed post, and the next run over the same posts calls it again.
C4_FailedPublishStaysEligible ==
    [][ /\ (IsPublishCall /\ CreateFailed(last')) =>
              /\ posts[i].id \notin published_post_ids'
              /\ \A k \in 1..Len(newly_published') : newly_published'[k].id # posts[i].id
              /\ ledgerFile' = ledgerFile
        /\ IsPublishCall => posts[i].id \notin FailedIds
        /\ IsRunEnd => FailedIds \cap LedgerIds(ledgerFile') = {}
        /\ IsSkip => posts[i].id \notin prevFailed
      ]_vars

\* C4's case: a post whose call failed in the run before is called again.
C4_Witness ==
    /\ pc = "publishing"
    /\ last.attempted
    /\ posts[last.idx].id \in prevFailed

\* C5: when a run is killed, every post the remote system created for it in
\* that run is already in the ledger file.
C5_KilledRunLeavesPostsInLedger ==
    [][ (IsRunEnd /\ faults' = faults + 1) =>
            \A k \in DOMAIN outcomes :
                outcomes[k] # "failed" => posts[k].id \in LedgerIds(ledgerFile')
      ]_vars

\* C6: the ledger is monotonic: an id in the ledger file stays in it.
C6_LedgerMonotonic ==
    [][ LedgerIds(ledgerFile) \subseteq LedgerIds(ledgerFile') ]_vars

\* C7: while the ledger file exists and cannot be read, no publish call is made
\* and the file is not rewritten.
C7_UnreadableLedgerAbortsRun ==
    [][ ledgerFile.state = "corrupt" =>
            /\ ~IsPublishCall
            /\ ledgerFile' = ledgerFile
      ]_vars

\* The latest call could not resolve the category, or one of the tags.
TermsMissing(call) ==
    /\ call.attempted
    /\ \/ call.category_id = None
       \/ Len(call.tag_ids) < Len(posts[call.idx].tags)

\* C8 as the specification states it: a call that could not resolve the
\* category or a tag creates no remote post and records nothing.
C8_MissingTermsAbandonCall ==
    TermsMissing(last) =>
        /\ last.outcome # "created"
        /\ posts[last.idx].id \notin published_post_ids

\* C8, amended: a call that could not resolve the category or a tag still sends
\* the create-post request, with no category when the category failed and with
\* the ids of the tags that resolved; the post is recorded as published exactly
\* when the call succeeds.
C8_MissingTermsCallGoesOn ==
    TermsMissing(last) =>
        /\ last.outcome \in PostOutcomes
        /\ last.categories = (IF last.category_id = None THEN <<>> ELSE <<last.category_id>>)
        /\ \A k \in 1..Len(last.tag_ids) : last.tag_ids[k] # None
        /\ last.success => last.outcome = "created"
        /\ (posts[last.idx].id \in published_post_ids) <=> last.success

\* C8's case: the category or a tag did not resolve, and the post was created
\* and recorded.
C8_Witness ==
    /\ TermsMissing(last)
    /\ last.outcome = "created"
    /\ posts[last.idx].id \in published_post_ids

(* C11 *)

\* This step is a run of generate_posts.main.
IsGenerateRun == runs'.generate = runs.generate + 1

\* C11: a failure while one item's post is built, saved or published is
\* recovered at that item: a generate run makes the post of every item of the
\* batch whose own processing did not raise, the later items of the failed
\* item's category included, and a publish call that fails leaves the run at
\* the next post of the same list.
C11_ItemFailureIsolated ==
    [][ /\ IsGenerateRun =>
              LET work == GenerateWork(news)
              IN  \A k \in (1..Len(work)) \ raised' :
                    \E n \in 1..Len(posts') :
                        posts'[n].id = PostId(work[k].category, work[k].index, clock + k)
        /\ (IsPublishCall /\ ~last'.success) =>
              /\ pc' = "publishing"
              /\ i' = i + 1
              /\ posts' = posts
      ]_vars

(* C12 *)

Range(seq) == {seq[k] : k \in 1..Len(seq)}

\* The tag set the specification gives a category.
ExpectedTags(category) ==
    {category, "container", "cloud-native"}
        \cup (IF category = "docker" THEN {"containers", "dockerhub", "docker-compose"}
              ELSE IF category = "kubernetes" THEN {"k8s", "cncf", "cloud-native"}
              ELSE {})

\* C12: the tags of every post are its category, "container", "cloud-native"
\* and the extras of its category, and a publish call whose tags all resolve
\* attaches exactly the ids of those tags to the remote post.
C12_TagSetWithExtras ==
    /\ \A k \in DOMAIN posts : Range(posts[k].tags) = ExpectedTags(posts[k].category)
    /\ (last.attempted /\ Len(last.tag_ids) = Len(posts[last.idx].tags)) =>
          Range(last.tag_ids) =
              {get_or_create_tag(t, [search |-> "match", create |-> "created"]) :
                  t \in ExpectedTags(posts[last.idx].category)}

(* C9 *)

\* C9 as the specification states it: once a call of download_image for a
\* (title, url) has returned a path, every later call for it returns that path
\* and fetches nothing, and all the fetches ever made for it are at most one.
C9_AtMostOneFetchEver ==
    \A asset \in DOMAIN firstOk :
        /\ fetches[asset] <= 1
        /\ (lastCall.asset = asset /\ lastCall.again) =>
              /\ lastCall.path = firstOk[asset].path
              /\ ~lastCall.fetched

\* C9, amended: once a call of download_image for a (title, url) has returned
\* a path, every later call for it, in the same run or a later one, returns
\* that path and fetches nothing; the fetches made for it by that first
\* successful call and the calls after it are at most one.  Fetches of calls
\* that failed before it are not counted.
C9_CachedAfterFirstSuccess ==
    \A asset \in DOMAIN firstOk :
        /\ fetchesSince[asset] <= 1
        /\ (lastCall.asset = asset /\ lastCall.again) =>
              /\ lastCall.path = firstOk[asset].path
              /\ ~lastCall.fetched

\* C9: an image downloaded whole by one run is asked for again by a later run.
C9_Witness ==
    /\ lastCall.again
    /\ lastCall.asset \in DOMAIN firstOk
    /\ lastCall.run > firstOk[lastCall.asset].run
    /\ fetches[lastCall.asset] = 1
    /\ lastCall.path \in DOMAIN files
    /\ files[lastCall.path] = "complete"

(* C13 *)

\* C13: every file of data/images was written by a download that ran to its
\* end, and a call of download_image that returns a path without fetching
\* returns the path of such a file.
C13_CacheHoldsCompleteFiles ==
    /\ \A path \in DOMAIN files : files[path] = "complete"
    /\ (lastCall.path # None /\ ~lastCall.fetched) =>
          /\ lastCall.path \in DOMAIN files
          /\ files[lastCall.path] = "complete"

(* C10 *)

\* The urls of all sources, in the order main reads them.
SourceUrls ==
    Flatten([c \in 1..Len(SourceCategories) |->
               [k \in 1..Len(SOURCES[SourceCategories[c]]) |->
                  SOURCES[SourceCategories[c]][k].url]])

\* What the sources of a category that did not fail returned, in order.
Contribution(ret, category) ==
    LET OfCategory(r) == r.category = category
        rs == SelectSeq(ret, OfCategory)
    IN  Flatten([k \in 1..Len(rs) |-> rs[k].items])

\* C10: a source whose fetch or parse fails adds nothing to the category's
\* articles and the run goes on to the next source; when the run ends every
\* source has been read, and the snapshot of each category and the combined
\* snapshot hold exactly the items of the sources that did not fail.
C10_SourceIsolation ==
    [][ /\ (fpc = "sources" /\ fsrc' = fsrc + 1) =>
              /\ fpc' = "sources"
              /\ lastSource'.failed => articles' = articles
              /\ ~lastSource'.failed => articles' = articles \o lastSource'.items
        /\ (fpc # "done" /\ fpc' = "done") =>
              /\ [k \in 1..Len(returned') |-> returned'[k].url] = SourceUrls
              /\ \A c \in DOMAIN SOURCES :
                    /\ c \in DOMAIN snapshots' /\ c \in DOMAIN allNews'
                    /\ snapshots'[c] = Contribution(returned', c)
                    /\ allNews'[c] = Contribution(returned', c)
      ]_vars

\* C10: a run ended whose last source failed, with items of another source of
\* its category and of a source of another category in the snapshots.
C10_Witness ==
    /\ fpc = "done"
    /\ lastSource.failed
    /\ snapshots[lastSource.category] # <<>>
    /\ allNews["docker"] # <<>>
    /\ lastSource.category # "docker"

====
